---------------------------- MODULE Spec2Model ----------------------------
(***************************************************************************)
(* A model of index.mjs, the GraphQL schema introspection server: the      *)
(* start-up sequence (argument handling, loadSchema, conditional tool     *)
(* registration, connect) and the ten tool handlers.                      *)
(*                                                                         *)
(* Text is modelled as a sequence of one-character strings, so that        *)
(* joining, prefix tests, regular-expression tests and line splitting are  *)
(* computed rather than assumed.  The collaborators graphql-js (print,     *)
(* toString, buildSchema's result), RegExp and path.resolve are modelled   *)
(* by what they do on the inputs enumerated here.                          *)
(***************************************************************************)
EXTENDS Integers, Sequences, FiniteSets

VARIABLES
    pc,        \* position of the top-level script
    args,      \* process.argv.slice(2)
    file,      \* what lies at the resolved schema path on disk
    schema,    \* the GraphQLSchema returned by loadSchema (named by the
               \* document it was built from), or Undefined
    tools,     \* names registered with server.tool
    connected, \* server.connect(transport) has run
    stderr,    \* lines written to the error stream, oldest first
    exitCode,  \* process.exit status, or Undefined
    request,   \* last tool invocation handed to a handler
    result     \* what that handler did: returned an envelope, or threw

vars == <<pc, args, file, schema, tools, connected, stderr, exitCode, request, result>>

\* an optional value (undefined, or a value): the empty or the one-element sequence
Undefined == <<>>
Some(x) == <<x>>
IsDefined(o) == Len(o) = 1
ValueOf(o) == o[1]

-----------------------------------------------------------------------------
(* Bounds of the enumerated inputs *)

\* longest generated search pattern over PatternAlphabet
MaxPatLen == 2

-----------------------------------------------------------------------------
(* Strings *)

RECURSIVE Join(_, _)
\* Array.prototype.join
Join(parts, sep) ==
    IF Len(parts) = 0 THEN <<>>
    ELSE IF Len(parts) = 1 THEN parts[1]
    ELSE parts[1] \o sep \o Join(Tail(parts), sep)

\* String.prototype.startsWith
StartsWith(s, prefix) ==
    /\ Len(s) >= Len(prefix)
    /\ \A i \in 1..Len(prefix) : s[i] = prefix[i]

Lowers == <<"a","b","c","d","e","f","g","h","i","j","k","l","m","n","o","p","q","r","s","t","u","v","w","x","y","z">>
Uppers == <<"A","B","C","D","E","F","G","H","I","J","K","L","M","N","O","P","Q","R","S","T","U","V","W","X","Y","Z">>

\* Canonicalize of the "i" flag: simple upper-casing of a character
Canonicalize(c) ==
    IF \E i \in 1..Len(Lowers) : Lowers[i] = c
    THEN Uppers[CHOOSE i \in 1..Len(Lowers) : Lowers[i] = c]
    ELSE c

-----------------------------------------------------------------------------
(* Regular expressions: the subset of the RegExp syntax the enumerated     *)
(* patterns use: literal characters, ".", postfix "*", and an opening      *)
(* parenthesis that nothing closes.                                        *)

\* new RegExp(pattern) throws SyntaxError: an unterminated group, or a
\* quantifier with nothing to repeat
PatternIsValid(p) ==
    /\ \A i \in 1..Len(p) : p[i] # "("
    /\ \A i \in 1..Len(p) : p[i] = "*" => (i > 1 /\ p[i-1] # "*")

\* the atoms of a valid pattern: a character (or ".") and whether "*" follows
RECURSIVE Atoms(_)
Atoms(p) ==
    IF Len(p) = 0 THEN <<>>
    ELSE IF Len(p) >= 2 /\ p[2] = "*"
         THEN <<[ch |-> p[1], star |-> TRUE]>> \o Atoms(SubSeq(p, 3, Len(p)))
         ELSE <<[ch |-> p[1], star |-> FALSE]>> \o Atoms(Tail(p))

AtomMatches(a, c) == a.ch = "." \/ Canonicalize(a.ch) = Canonicalize(c)

\* backtracking match of atoms[i..] against s starting at s[j]
RECURSIVE MatchHere(_, _, _, _)
MatchHere(atoms, i, s, j) ==
    IF i > Len(atoms) THEN TRUE
    ELSE IF atoms[i].star
         THEN \/ MatchHere(atoms, i + 1, s, j)
              \/ /\ j <= Len(s)
                 /\ AtomMatches(atoms[i], s[j])
                 /\ MatchHere(atoms, i, s, j + 1)
         ELSE /\ j <= Len(s)
              /\ AtomMatches(atoms[i], s[j])
              /\ MatchHere(atoms, i + 1, s, j + 1)

\* RegExp.prototype.test of new RegExp(pattern, "i"): unanchored, no "g"
\* flag, so no lastIndex is carried from one call to the next
RegExpTest(pattern, s) ==
    \E j \in 1..(Len(s) + 1) : MatchHere(Atoms(pattern), 1, s, j)

-----------------------------------------------------------------------------
(* graphql-js values: type references, syntax nodes, types                 *)

Named(n)   == <<"Named", n>>
NonNull(t) == <<"NonNull", t>>
ListOf(t)  == <<"List", t>>

\* GraphQLType.prototype.toString: Name, [T], T!
RECURSIVE TypeToString(_)
TypeToString(t) ==
    IF t[1] = "Named" THEN t[2]
    ELSE IF t[1] = "List" THEN <<"[">> \o TypeToString(t[2]) \o <<"]">>
    ELSE TypeToString(t[2]) \o <<"!">>

\* name: Type of an argument or input field
PrintInputValue(a) == a.name \o <<":"," ">> \o TypeToString(a.type)

RECURSIVE MapPrintInputValue(_)
MapPrintInputValue(as) ==
    IF Len(as) = 0 THEN <<>>
    ELSE <<PrintInputValue(as[1])>> \o MapPrintInputValue(Tail(as))

\* print of a FieldDefinition or InputValueDefinition node
PrintField(node) ==
    node.name
    \o (IF Len(node.args) = 0 THEN <<>>
        ELSE <<"(">> \o Join(MapPrintInputValue(node.args), <<","," ">>) \o <<")">>)
    \o <<":"," ">> \o TypeToString(node.type)

RECURSIVE IndentEach(_)
IndentEach(lines) ==
    IF Len(lines) = 0 THEN <<>>
    ELSE <<<<" "," ">> \o lines[1]>> \o IndentEach(Tail(lines))

\* the printer's block(): nothing for no members, else braces around
\* indented lines
Block(lines) ==
    IF Len(lines) = 0 THEN <<>>
    ELSE <<" ","{","\n">> \o Join(IndentEach(lines), <<"\n">>) \o <<"\n","}">>

RECURSIVE MapPrintField(_)
MapPrintField(nodes) ==
    IF Len(nodes) = 0 THEN <<>>
    ELSE <<PrintField(nodes[1])>> \o MapPrintField(Tail(nodes))

\* graphql/language print(astNode)
print(node) ==
    IF node.kind \in {"FieldDefinition", "InputValueDefinition"} THEN PrintField(node)
    ELSE IF node.kind = "ObjectTypeDefinition"
         THEN <<"t","y","p","e"," ">> \o node.name \o Block(MapPrintField(node.members))
    ELSE IF node.kind = "InputObjectTypeDefinition"
         THEN <<"i","n","p","u","t"," ">> \o node.name \o Block(MapPrintField(node.members))
    ELSE IF node.kind = "InterfaceTypeDefinition"
         THEN <<"i","n","t","e","r","f","a","c","e"," ">> \o node.name \o Block(MapPrintField(node.members))
    ELSE IF node.kind = "EnumTypeDefinition"
         THEN <<"e","n","u","m"," ">> \o node.name \o Block(node.members)
    ELSE IF node.kind = "UnionTypeDefinition"
         THEN <<"u","n","i","o","n"," ">> \o node.name \o <<" ","="," ">> \o Join(node.members, <<" ","|"," ">>)
    ELSE <<"s","c","a","l","a","r"," ">> \o node.name

FieldNode(kind, name, fargs, type) ==
    [kind |-> kind, name |-> name, args |-> fargs, type |-> type]

\* a field as buildSchema makes it from a document: it keeps its syntax node
DocField(name, fargs, type) ==
    [name |-> name, type |-> type,
     astNode |-> Some(FieldNode("FieldDefinition", name, fargs, type))]

DocInputField(name, type) ==
    [name |-> name, type |-> type,
     astNode |-> Some(FieldNode("InputValueDefinition", name, <<>>, type))]

\* a field of a type graphql-js itself defines: no syntax node
StdField(name, type) == [name |-> name, type |-> type, astNode |-> Undefined]

RECURSIVE AstNodes(_)
AstNodes(fields) ==
    IF Len(fields) = 0 THEN <<>>
    ELSE <<ValueOf(fields[1].astNode)>> \o AstNodes(Tail(fields))

Arg(name, type) == [name |-> name, type |-> type]

ObjectCtor == <<"G","r","a","p","h","Q","L","O","b","j","e","c","t","T","y","p","e">>
InterfaceCtor == <<"G","r","a","p","h","Q","L","I","n","t","e","r","f","a","c","e","T","y","p","e">>
UnionCtor  == <<"G","r","a","p","h","Q","L","U","n","i","o","n","T","y","p","e">>
InputCtor  == <<"G","r","a","p","h","Q","L","I","n","p","u","t","O","b","j","e","c","t","T","y","p","e">>
EnumCtor   == <<"G","r","a","p","h","Q","L","E","n","u","m","T","y","p","e">>
ScalarCtor == <<"G","r","a","p","h","Q","L","S","c","a","l","a","r","T","y","p","e">>

\* the classes whose instances have a getFields method
FieldBearingCtors == {ObjectCtor, InterfaceCtor, InputCtor}

DocObject(name, fields) ==
    [name |-> name, ctor |-> ObjectCtor, description |-> Undefined, fields |-> fields,
     astNode |-> Some([kind |-> "ObjectTypeDefinition", name |-> name,
                       members |-> AstNodes(fields)])]

DocInput(name, fields) ==
    [name |-> name, ctor |-> InputCtor, description |-> Undefined, fields |-> fields,
     astNode |-> Some([kind |-> "InputObjectTypeDefinition", name |-> name,
                       members |-> AstNodes(fields)])]

DocInterface(name, fields) ==
    [name |-> name, ctor |-> InterfaceCtor, description |-> Undefined,
     fields |-> fields,
     astNode |-> Some([kind |-> "InterfaceTypeDefinition", name |-> name,
                       members |-> AstNodes(fields)])]

DocUnion(name, members) ==
    [name |-> name, ctor |-> UnionCtor, description |-> Undefined, fields |-> <<>>,
     astNode |-> Some([kind |-> "UnionTypeDefinition", name |-> name,
                       members |-> members])]

DocEnum(name, values) ==
    [name |-> name, ctor |-> EnumCtor, description |-> Undefined, fields |-> <<>>,
     astNode |-> Some([kind |-> "EnumTypeDefinition", name |-> name,
                       members |-> values])]

DocScalar(name) ==
    [name |-> name, ctor |-> ScalarCtor, description |-> Undefined, fields |-> <<>>,
     astNode |-> Some([kind |-> "ScalarTypeDefinition", name |-> name,
                       members |-> <<>>])]

\* a type graphql-js itself defines: described, and without a syntax node
StdType(name, ctor, description, fields) ==
    [name |-> name, ctor |-> ctor, description |-> Some(description),
     fields |-> fields, astNode |-> Undefined]

-----------------------------------------------------------------------------
(* The schemas buildSchema can return for the documents enumerated here.   *)
(* Every document defines User, Node, Actor, Role, UserInput and _Any (a   *)
(* type of each kind); it may define                                       *)
(* Query (or name the introspection type __Type as its query root),        *)
(* Mutation (with one field, or with none) and Subscription.               *)

QueryType ==
    DocObject(<<"Q","u","e","r","y">>,
        << DocField(<<"u","s","e","r">>, <<Arg(<<"i","d">>, NonNull(Named(<<"I","D">>)))>>, Named(<<"U","s","e","r">>)),
           DocField(<<"u","s","e","r","s">>, <<>>, NonNull(ListOf(NonNull(Named(<<"U","s","e","r">>))))) >>)

MutationType ==
    DocObject(<<"M","u","t","a","t","i","o","n">>,
        << DocField(<<"c","r","e","a","t","e","U","s","e","r">>,
                    <<Arg(<<"i","n","p","u","t">>, NonNull(Named(<<"U","s","e","r","I","n","p","u","t">>))),
                      Arg(<<"d","r","y","R","u","n">>, Named(<<"B","o","o","l","e","a","n">>))>>,
                    Named(<<"U","s","e","r">>)) >>)

\* "type Mutation" without a field list
EmptyMutationType == DocObject(<<"M","u","t","a","t","i","o","n">>, <<>>)

SubscriptionType ==
    DocObject(<<"S","u","b","s","c","r","i","p","t","i","o","n">>, << DocField(<<"u","s","e","r","A","d","d","e","d">>, <<>>, Named(<<"U","s","e","r">>)) >>)

UserType ==
    DocObject(<<"U","s","e","r">>,
        << DocField(<<"i","d">>, <<>>, NonNull(Named(<<"I","D">>))),
           DocField(<<"n","a","m","e">>, <<>>, Named(<<"S","t","r","i","n","g">>)),
           DocField(<<"r","o","l","e">>, <<>>, Named(<<"R","o","l","e">>)) >>)

RoleType == DocEnum(<<"R","o","l","e">>, << <<"A","D","M","I","N">>, <<"U","S","E","R">> >>)

UserInputType ==
    DocInput(<<"U","s","e","r","I","n","p","u","t">>, << DocInputField(<<"n","a","m","e">>, NonNull(Named(<<"S","t","r","i","n","g">>))) >>)

AnyType == DocScalar(<<"_","A","n","y">>)

NodeType == DocInterface(<<"N","o","d","e">>, << DocField(<<"i","d">>, <<>>, NonNull(Named(<<"I","D">>))) >>)

ActorType == DocUnion(<<"A","c","t","o","r">>, << <<"U","s","e","r">> >>)

\* the standard scalars the documents refer to (descriptions cut to their
\* first sentence)
StandardScalars ==
    << StdType(<<"I","D">>, ScalarCtor,
               <<"T","h","e"," ","I","D"," ","s","c","a","l","a","r"," ","t","y","p","e"," ","r","e","p","r","e","s","e","n","t","s"," ","a"," ","u","n","i","q","u","e"," ","i","d","e","n","t","i","f","i","e","r",".">>, <<>>),
       StdType(<<"S","t","r","i","n","g">>, ScalarCtor,
               <<"T","h","e"," ","S","t","r","i","n","g"," ","s","c","a","l","a","r"," ","t","y","p","e"," ","r","e","p","r","e","s","e","n","t","s"," ","t","e","x","t","u","a","l"," ","d","a","t","a",".">>, <<>>),
       StdType(<<"B","o","o","l","e","a","n">>, ScalarCtor,
               <<"T","h","e"," ","B","o","o","l","e","a","n"," ","s","c","a","l","a","r"," ","t","y","p","e"," ","r","e","p","r","e","s","e","n","t","s"," ","t","r","u","e"," ","o","r"," ","f","a","l","s","e",".">>, <<>>) >>

\* introspection types of every schema (of the eight, the three that differ
\* in class; each with the first of its fields)
SchemaMetaType ==
    StdType(<<"_","_","S","c","h","e","m","a">>, ObjectCtor,
            <<"A"," ","G","r","a","p","h","Q","L"," ","S","c","h","e","m","a"," ","d","e","f","i","n","e","s"," ","t","h","e"," ","c","a","p","a","b","i","l","i","t","i","e","s"," ","o","f"," ","a"," ","G","r","a","p","h","Q","L"," ","s","e","r","v","e","r",".">>,
            << StdField(<<"d","e","s","c","r","i","p","t","i","o","n">>, Named(<<"S","t","r","i","n","g">>)),
               StdField(<<"t","y","p","e","s">>, NonNull(ListOf(NonNull(Named(<<"_","_","T","y","p","e">>))))) >>)

TypeMetaType ==
    StdType(<<"_","_","T","y","p","e">>, ObjectCtor,
            <<"T","h","e"," ","f","u","n","d","a","m","e","n","t","a","l"," ","u","n","i","t"," ","o","f"," ","a","n","y"," ","G","r","a","p","h","Q","L"," ","S","c","h","e","m","a"," ","i","s"," ","t","h","e"," ","t","y","p","e",".">>,
            << StdField(<<"k","i","n","d">>, NonNull(Named(<<"_","_","T","y","p","e","K","i","n","d">>))),
               StdField(<<"n","a","m","e">>, Named(<<"S","t","r","i","n","g">>)) >>)

TypeKindMetaType ==
    StdType(<<"_","_","T","y","p","e","K","i","n","d">>, EnumCtor,
            <<"A","n"," ","e","n","u","m"," ","d","e","s","c","r","i","b","i","n","g"," ","w","h","a","t"," ","k","i","n","d"," ","o","f"," ","t","y","p","e"," ","a"," ","g","i","v","e","n"," ","_","_","T","y","p","e"," ","i","s",".">>, <<>>)

QueryChoices == {"absent", "Query", "__Type"}
MutationChoices == {"absent", "empty", "fields"}
SubscriptionChoices == {"absent", "fields"}

\* the GraphQLSchema of one document: its root type names (getQueryType,
\* getMutationType, getSubscriptionType) and its type map in key order
SchemaOf(q, m, s) ==
    [ queryType |-> IF q = "absent" THEN Undefined
                    ELSE IF q = "Query" THEN Some(<<"Q","u","e","r","y">>) ELSE Some(<<"_","_","T","y","p","e">>),
      mutationType |-> IF m = "absent" THEN Undefined ELSE Some(<<"M","u","t","a","t","i","o","n">>),
      subscriptionType |-> IF s = "absent" THEN Undefined ELSE Some(<<"S","u","b","s","c","r","i","p","t","i","o","n">>),
      typeMap |->
          (IF q = "Query" THEN <<QueryType>> ELSE <<>>)
          \o (IF m = "fields" THEN <<MutationType>>
              ELSE IF m = "empty" THEN <<EmptyMutationType>> ELSE <<>>)
          \o (IF s = "fields" THEN <<SubscriptionType>> ELSE <<>>)
          \o <<UserType, NodeType, ActorType, RoleType, UserInputType, AnyType>>
          \o StandardScalars
          \o <<SchemaMetaType, TypeMetaType, TypeKindMetaType>> ]

\* the documents: which root types each defines
Documents ==
    [query : QueryChoices, mutation : MutationChoices,
     subscription : SubscriptionChoices]

\* buildSchema of a valid document
buildSchema(doc) == SchemaOf(doc.query, doc.mutation, doc.subscription)

\* schema.getTypeMap()[typeName]
RECURSIVE TypeNamed(_, _)
TypeNamed(typeMap, typeName) ==
    IF Len(typeMap) = 0 THEN Undefined
    ELSE IF typeMap[1].name = typeName THEN Some(typeMap[1])
    ELSE TypeNamed(Tail(typeMap), typeName)

\* fields[fieldName] of a getFields() map
RECURSIVE FieldNamed(_, _)
FieldNamed(fields, fieldName) ==
    IF Len(fields) = 0 THEN Undefined
    ELSE IF fields[1].name = fieldName THEN Some(fields[1])
    ELSE FieldNamed(Tail(fields), fieldName)

\* Object.keys of a type map or of a field map: the names in key order
RECURSIVE Keys(_)
Keys(entries) ==
    IF Len(entries) = 0 THEN <<>> ELSE <<entries[1].name>> \o Keys(Tail(entries))

\* HasGetFields, had it asked for an object type
HasGetFields_ObjectOnly(type) == type.ctor = ObjectCtor

\* "getFields" in type
HasGetFields(type) == type.ctor \in FieldBearingCtors

\* schema.getXType()?.getFields() for a root type name that may be undefined
RootFields(sch, rootName) ==
    IF IsDefined(rootName)
    THEN Some(ValueOf(TypeNamed(sch.typeMap, ValueOf(rootName))).fields)
    ELSE Undefined

-----------------------------------------------------------------------------
(* The environment of one run: command line, working directory, disk       *)

Cwd == <<"/","s","r","v">>

\* path.resolve of one segment against the working directory
Resolve(path) ==
    IF StartsWith(path, <<"/">>) THEN path ELSE Cwd \o <<"/">> \o path

ArgLists ==
    { <<>>, << <<"-","-","h","e","l","p">> >>, << <<"-","h">> >>, << <<"a","p","i",".","g","r","a","p","h","q","l","s">> >>,
      << <<"/","e","t","c","/","a","p","i",".","g","r","a","p","h","q","l","s">> >>, << <<"a","p","i",".","g","r","a","p","h","q","l","s">>, <<"-","-","h","e","l","p">> >> }

\* error.message of the error buildSchema throws
ParseErrorMessage == <<"S","y","n","t","a","x"," ","E","r","r","o","r",":"," ","U","n","e","x","p","e","c","t","e","d"," ","N","a","m","e"," ","\"","t","y","p","\"",".">>

\* what readFile and buildSchema make of the file at the resolved path
Files ==
    { [state |-> "unreadable", doc |-> Undefined],
      [state |-> "invalid", doc |-> Undefined] }
    \cup { [state |-> "valid", doc |-> Some(doc)] : doc \in Documents }

\* the usage text of --help (first line)
HelpText == <<"G","r","a","p","h","Q","L"," ","S","c","h","e","m","a"," ","M","o","d","e","l"," ","C","o","n","t","e","x","t"," ","P","r","o","t","o","c","o","l"," ","S","e","r","v","e","r">>

UsageLine == <<"U","s","a","g","e",":"," ","n","o","d","e"," ","i","n","d","e","x",".","m","j","s"," ","[","p","a","t","h","/","t","o","/","s","c","h","e","m","a",".","g","r","a","p","h","q","l","s","]">>

-----------------------------------------------------------------------------
(* Results of a handler                                                    *)

\* { content: [{ type: "text", text }] }
Envelope(text) ==
    [status |-> "returned", content |-> <<[type |-> "text", text |-> text]>>,
     error |-> ""]

\* the handler threw instead of returning
Threw(error) == [status |-> "threw", content |-> <<>>, error |-> error]

NoResult == [status |-> "none", content |-> <<>>, error |-> ""]
NoRequest == [tool |-> "", arg |-> Undefined]

-----------------------------------------------------------------------------
(* Start-up                                                                *)

Init ==
    /\ pc = "start"
    /\ args \in ArgLists
    /\ file \in Files
    /\ schema = Undefined
    /\ tools = {}
    /\ connected = FALSE
    /\ stderr = <<>>
    /\ exitCode = Undefined
    /\ request = NoRequest
    /\ result = NoResult

\* args.includes("--help") || args.includes("-h")
HelpRequested ==
    \E i \in 1..Len(args) : args[i] = <<"-","-","h","e","l","p">> \/ args[i] = <<"-","h">>

\* console is the error stream's Console: the usage text goes to stderr
Help ==
    /\ pc = "start"
    /\ HelpRequested
    /\ stderr' = Append(stderr, HelpText)
    /\ exitCode' = Some(0)
    /\ pc' = "exited"
    /\ UNCHANGED <<args, file, schema, tools, connected, request, result>>

\* schemaPath, had the path been left as given
schemaPath_Unresolved == IF Len(args) >= 1 THEN args[1] ELSE <<"s","c","h","e","m","a",".","g","r","a","p","h","q","l","s">>

\* resolve(schemaArg ?? "schema.graphqls")
schemaPath == Resolve(IF Len(args) >= 1 THEN args[1] ELSE <<"s","c","h","e","m","a",".","g","r","a","p","h","q","l","s">>)

\* loadSchema: readFile rejects
LoadSchemaUnreadable ==
    /\ pc = "start"
    /\ ~HelpRequested
    /\ file.state = "unreadable"
    /\ stderr' = stderr \o << <<"E","r","r","o","r",":"," ","S","c","h","e","m","a"," ","f","i","l","e"," ","n","o","t"," ","f","o","u","n","d"," ","a","t"," ">> \o schemaPath,
                              UsageLine >>
    /\ exitCode' = Some(1)
    /\ pc' = "exited"
    /\ UNCHANGED <<args, file, schema, tools, connected, request, result>>

\* loadSchema: buildSchema throws
LoadSchemaInvalid ==
    /\ pc = "start"
    /\ ~HelpRequested
    /\ file.state = "invalid"
    /\ stderr' = Append(stderr, <<"E","r","r","o","r"," ","l","o","a","d","i","n","g"," ","s","c","h","e","m","a",":"," ">> \o ParseErrorMessage)
    /\ exitCode' = Some(1)
    /\ pc' = "exited"
    /\ UNCHANGED <<args, file, schema, tools, connected, request, result>>

\* loadSchema returns the schema
LoadSchemaOk ==
    /\ pc = "start"
    /\ ~HelpRequested
    /\ file.state = "valid"
    /\ schema' = file.doc
    /\ pc' = "registerQuery"
    /\ UNCHANGED <<args, file, tools, connected, stderr, exitCode, request, result>>

\* const schema = await loadSchema()
TheSchema == buildSchema(ValueOf(schema))

\* schema.getTypeMap()
typeMap == TheSchema.typeMap

queryFields == RootFields(TheSchema, TheSchema.queryType)
\* mutationFields, had the query block been copied without its receiver changed
mutationFields_CopiedQuery ==
    IF IsDefined(TheSchema.mutationType) THEN queryFields ELSE Undefined

mutationFields == RootFields(TheSchema, TheSchema.mutationType)
subscriptionFields == RootFields(TheSchema, TheSchema.subscriptionType)

QueryTools == {"list-query-fields", "get-query-field"}
MutationTools == {"list-mutation-fields", "get-mutation-field"}
SubscriptionTools == {"list-subscription-fields", "get-subscription-field"}
TypeTools == {"list-types", "get-type", "get-type-fields", "search-schema"}

\* if (queryFields) { server.tool(...); server.tool(...) }
RegisterQueryTools ==
    /\ pc = "registerQuery"
    /\ tools' = IF IsDefined(queryFields) THEN tools \cup QueryTools ELSE tools
    /\ pc' = "registerMutation"
    /\ UNCHANGED <<args, file, schema, connected, stderr, exitCode, request, result>>

\* RegisterMutationTools, had it tested for fields rather than for the type
RegisterMutationTools_NonEmptyOnly ==
    /\ pc = "registerMutation"
    /\ tools' = IF IsDefined(mutationFields) /\ Len(ValueOf(mutationFields)) > 0
                THEN tools \cup MutationTools ELSE tools
    /\ pc' = "registerSubscription"
    /\ UNCHANGED <<args, file, schema, connected, stderr, exitCode, request, result>>

RegisterMutationTools ==
    /\ pc = "registerMutation"
    /\ tools' = IF IsDefined(mutationFields) THEN tools \cup MutationTools ELSE tools
    /\ pc' = "registerSubscription"
    /\ UNCHANGED <<args, file, schema, connected, stderr, exitCode, request, result>>

RegisterSubscriptionTools ==
    /\ pc = "registerSubscription"
    /\ tools' = IF IsDefined(subscriptionFields) THEN tools \cup SubscriptionTools
                ELSE tools
    /\ pc' = "registerTypes"
    /\ UNCHANGED <<args, file, schema, connected, stderr, exitCode, request, result>>

RegisterTypeTools ==
    /\ pc = "registerTypes"
    /\ tools' = tools \cup TypeTools
    /\ pc' = "connect"
    /\ UNCHANGED <<args, file, schema, connected, stderr, exitCode, request, result>>

\* await server.connect(transport)
Connect ==
    /\ pc = "connect"
    /\ connected' = TRUE
    /\ pc' = "idle"
    /\ UNCHANGED <<args, file, schema, tools, stderr, exitCode, request, result>>

-----------------------------------------------------------------------------
(* Tool handlers.  A handler is called for a registered tool with          *)
(* arguments of the declared shape (one string, or none); it is            *)
(* synchronous, so one call is one step.                                   *)

\* fieldName and typeName arguments
NameInputs ==
    { <<>>, <<"u","s","e","r">>, <<"U","s","e","r">>, <<"U","S","E","R">>, <<"u","s","e","r","s">>, <<"c","r","e","a","t","e","U","s","e","r">>, <<"u","s","e","r","A","d","d","e","d">>,
      <<"m","i","s","s","i","n","g">>, <<"n","a","m","e">>, <<"k","i","n","d">>, <<"Q","u","e","r","y">>, <<"M","u","t","a","t","i","o","n">>, <<"R","o","l","e">>, <<"U","s","e","r","I","n","p","u","t">>,
      <<"N","o","d","e">>, <<"A","c","t","o","r">>,
      <<"_","A","n","y">>, <<"I","D">>, <<"_","_","T","y","p","e">>, <<"_","_","T","y","p","e","K","i","n","d">>, <<"_","_","M","i","s","s","i","n","g">> }

PatternAlphabet == {"u", "E", "_", ".", "*", "("}

RECURSIVE SeqsUpTo(_, _)
SeqsUpTo(S, n) ==
    IF n = 0 THEN {<<>>}
    ELSE LET shorter == SeqsUpTo(S, n - 1)
         IN shorter \cup { Append(p, c) : p \in shorter, c \in S }

\* pattern arguments: every string over PatternAlphabet up to MaxPatLen, and
\* some longer ones
PatternInputs ==
    SeqsUpTo(PatternAlphabet, MaxPatLen)
    \cup { <<"u","s","e","r">>, <<"U","S","E","R">>, <<"n","a","m","e">>, <<"z","z","z">>, <<"u",".","*","r">>, <<"e","r",".","*","d">>, <<"_","_","t","y","p","e">>,
           <<"r","o","*","l","e">>, <<"(","u","s","e","r">>, <<"i","d","*">> }

\* the call of one registered handler and what comes of it
Handled(tool, arg, res) ==
    /\ pc = "idle"
    /\ connected
    /\ tool \in tools
    /\ request' = [tool |-> tool, arg |-> arg]
    /\ result' = res
    /\ pc' = "handled"
    /\ UNCHANGED <<args, file, schema, tools, connected, stderr, exitCode>>

\* the server takes the handler's outcome and waits for the next request
Respond ==
    /\ pc = "handled"
    /\ request' = NoRequest
    /\ result' = NoResult
    /\ pc' = "idle"
    /\ UNCHANGED <<args, file, schema, tools, connected, stderr, exitCode>>

\* Object.keys(fields).join(", ")
ListFieldsText(fields) == Join(Keys(fields), <<","," ">>)

\* fields[fieldName]?.astNode ? print(fields[fieldName].astNode) : "Field not ..."
GetFieldText(fields, fieldName) ==
    LET field == FieldNamed(fields, fieldName)
    IN IF IsDefined(field) /\ IsDefined(ValueOf(field).astNode)
       THEN print(ValueOf(ValueOf(field).astNode))
       ELSE <<"F","i","e","l","d"," ","n","o","t"," ","f","o","u","n","d"," ","o","r"," ","h","a","s"," ","n","o"," ","d","e","f","i","n","i","t","i","o","n">>

ListQueryFields ==
    Handled("list-query-fields", Undefined,
            Envelope(ListFieldsText(ValueOf(queryFields))))

GetQueryField ==
    \E fieldName \in NameInputs :
        Handled("get-query-field", Some(fieldName),
                Envelope(GetFieldText(ValueOf(queryFields), fieldName)))

ListMutationFields ==
    Handled("list-mutation-fields", Undefined,
            Envelope(ListFieldsText(ValueOf(mutationFields))))

GetMutationField ==
    \E fieldName \in NameInputs :
        Handled("get-mutation-field", Some(fieldName),
                Envelope(GetFieldText(ValueOf(mutationFields), fieldName)))

ListSubscriptionFields ==
    Handled("list-subscription-fields", Undefined,
            Envelope(ListFieldsText(ValueOf(subscriptionFields))))

GetSubscriptionField ==
    \E fieldName \in NameInputs :
        Handled("get-subscription-field", Some(fieldName),
                Envelope(GetFieldText(ValueOf(subscriptionFields), fieldName)))

\* NotInternal, had it tested for one underscore
NotInternal_OneUnderscore(name) == ~StartsWith(name, <<"_">>)

\* (type) => !type.startsWith("__")
NotInternal(name) == ~StartsWith(name, <<"_","_">>)

ListTypesText ==
    Join(SelectSeq(Keys(typeMap), NotInternal), <<","," ">>)

ListTypes == Handled("list-types", Undefined, Envelope(ListTypesText))

\* GetTypeText, had a type without a syntax node been treated as absent
GetTypeText_NoSummary(typeName) ==
    LET type == TypeNamed(typeMap, typeName)
    IN IF ~IsDefined(type) \/ ~IsDefined(ValueOf(type).astNode)
       THEN <<"T","y","p","e"," ","\"">> \o typeName \o <<"\""," ","n","o","t"," ","f","o","u","n","d">>
       ELSE print(ValueOf(ValueOf(type).astNode))

GetTypeText(typeName) ==
    LET type == TypeNamed(typeMap, typeName)
    IN IF ~IsDefined(type)
       THEN <<"T","y","p","e"," ","\"">> \o typeName \o <<"\""," ","n","o","t"," ","f","o","u","n","d">>
       ELSE IF ~IsDefined(ValueOf(type).astNode)
       THEN <<"T","y","p","e",":"," ">> \o typeName
            \o <<"\n","D","e","s","c","r","i","p","t","i","o","n",":"," ">>
            \o (IF IsDefined(ValueOf(type).description)
                THEN ValueOf(ValueOf(type).description)
                ELSE <<"N","o"," ","d","e","s","c","r","i","p","t","i","o","n">>)
            \o <<"\n","K","i","n","d",":"," ">> \o ValueOf(type).ctor
       ELSE print(ValueOf(ValueOf(type).astNode))

GetType ==
    \E typeName \in NameInputs :
        Handled("get-type", Some(typeName), Envelope(GetTypeText(typeName)))

\* ([fieldName, field]) => `${fieldName}: ${field.type.toString()}`
RECURSIVE FieldLines(_)
FieldLines(fields) ==
    IF Len(fields) = 0 THEN <<>>
    ELSE <<fields[1].name \o <<":"," ">> \o TypeToString(fields[1].type)>>
         \o FieldLines(Tail(fields))

GetTypeFieldsText(typeName) ==
    LET type == TypeNamed(typeMap, typeName)
    IN IF ~IsDefined(type)
       THEN <<"T","y","p","e"," ","\"">> \o typeName \o <<"\""," ","n","o","t"," ","f","o","u","n","d">>
       ELSE IF ~HasGetFields(ValueOf(type))
       THEN <<"T","y","p","e"," ","\"">> \o typeName \o <<"\""," ","i","s"," ","n","o","t"," ","a","n"," ","o","b","j","e","c","t"," ","t","y","p","e"," ","w","i","t","h"," ","f","i","e","l","d","s">>
       ELSE Join(FieldLines(ValueOf(type).fields), <<"\n">>)

GetTypeFields ==
    \E typeName \in NameInputs :
        Handled("get-type-fields", Some(typeName),
                Envelope(GetTypeFieldsText(typeName)))

\* list.join(", ") || "None"
JoinOrNone(list) ==
    LET joined == Join(list, <<","," ">>) IN IF joined = <<>> THEN <<"N","o","n","e">> ELSE joined

\* the type names the first filter keeps
MatchingTypes(pattern) ==
    LET Keep(name) == NotInternal(name) /\ RegExpTest(pattern, name)
    IN SelectSeq(Keys(typeMap), Keep)

RECURSIVE Qualify(_, _)
Qualify(typeName, fieldNames) ==
    IF Len(fieldNames) = 0 THEN <<>>
    ELSE <<typeName \o <<".">> \o fieldNames[1]>> \o Qualify(typeName, Tail(fieldNames))

\* the flatMap callback: the matching fields of one type, qualified
MatchingFieldsOf(type, pattern) ==
    LET Keep(fieldName) == RegExpTest(pattern, fieldName)
    IN IF HasGetFields(type)
       THEN Qualify(type.name, SelectSeq(Keys(type.fields), Keep))
       ELSE <<>>

RECURSIVE FlatMapMatchingFields(_, _)
FlatMapMatchingFields(types, pattern) ==
    IF Len(types) = 0 THEN <<>>
    ELSE MatchingFieldsOf(types[1], pattern)
         \o FlatMapMatchingFields(Tail(types), pattern)

MatchingFields(pattern) ==
    LET Keep(type) == NotInternal(type.name)
    IN FlatMapMatchingFields(SelectSeq(typeMap, Keep), pattern)

SearchSchemaResult(pattern) ==
    IF ~PatternIsValid(pattern)
    THEN Threw("SyntaxError")
    ELSE Envelope(<<"M","a","t","c","h","i","n","g"," ","t","y","p","e","s",":"," ">> \o JoinOrNone(MatchingTypes(pattern))
                  \o <<"\n","M","a","t","c","h","i","n","g"," ","f","i","e","l","d","s",":"," ">> \o JoinOrNone(MatchingFields(pattern)))

SearchSchema ==
    \E pattern \in PatternInputs :
        Handled("search-schema", Some(pattern), SearchSchemaResult(pattern))

-----------------------------------------------------------------------------

Next ==
    \/ Help
    \/ LoadSchemaUnreadable
    \/ LoadSchemaInvalid
    \/ LoadSchemaOk
    \/ RegisterQueryTools
    \/ RegisterMutationTools
    \/ RegisterSubscriptionTools
    \/ RegisterTypeTools
    \/ Connect
    \/ ListQueryFields
    \/ GetQueryField
    \/ ListMutationFields
    \/ GetMutationField
    \/ ListSubscriptionFields
    \/ GetSubscriptionField
    \/ ListTypes
    \/ GetType
    \/ GetTypeFields
    \/ SearchSchema
    \/ Respond

Spec == Init /\ [][Next]_vars

-----------------------------------------------------------------------------
(* Vocabulary of the properties: text read back from a result              *)

\* where sep occurs in text (the separators used here do not overlap
\* themselves)
Occurrences(text, sep) ==
    { i \in 1..(Len(text) - Len(sep) + 1) :
          \A k \in 1..Len(sep) : text[i + k - 1] = sep[k] }

\* text.split(sep): the pieces between the occurrences of sep
Split(text, sep) ==
    LET at == Occurrences(text, sep)
        n == Cardinality(at)
        Nth(j) == CHOOSE i \in at : Cardinality({ h \in at : h < i }) = j - 1
    IN [ j \in 1..(n + 1) |->
           SubSeq(text,
                  IF j = 1 THEN 1 ELSE Nth(j - 1) + Len(sep),
                  IF j = n + 1 THEN Len(text) ELSE Nth(j) - 1) ]

\* the items of a joined list: none for the empty text
Items(text, sep) == IF text = <<>> THEN <<>> ELSE Split(text, sep)

Contains(text, part) ==
    \E i \in 0..(Len(text) - Len(part)) :
        \A k \in 1..Len(part) : text[i + k] = part[k]

Range(seq) == { seq[i] : i \in 1..Len(seq) }

\* a name of the reserved form: two leading underscores
Reserved(name) == Len(name) >= 2 /\ name[1] = "_" /\ name[2] = "_"

\* a type kind with named fields: object, interface, input object
FieldBearing(type) == type.ctor \in {ObjectCtor, InterfaceCtor, InputCtor}

Running == pc \in {"idle", "handled"}
HandledTool(tool) == pc = "handled" /\ request.tool = tool
ResultText == result.content[1].text
Returned ==
    /\ result.status = "returned"
    /\ Len(result.content) = 1
    /\ result.content[1].type = "text"

TypesNamed(name) == { i \in 1..Len(TheSchema.typeMap) : TheSchema.typeMap[i].name = name }
TypeAt(i) == TheSchema.typeMap[i]

-----------------------------------------------------------------------------
(* C1: every call of a registered tool with arguments of the declared      *)
(* shape ends with the handler returning the envelope                      *)
(* { content: [{ type: "text", text }] }; no handler throws.  The code     *)
(* does not do this: search-schema hands its pattern to new RegExp.        *)
C1_HandlerAlwaysReturnsEnvelope == pc = "handled" => Returned

\* what does hold: only search-schema throws, and only on a pattern that
\* is not a regular expression
OnlyInvalidPatternThrows ==
    pc = "handled" =>
        (~Returned <=> /\ request.tool = "search-schema"
                       /\ ~PatternIsValid(ValueOf(request.arg)))

-----------------------------------------------------------------------------
(* C2: for each root kind K the tools list-K-fields and get-K-field are    *)
(* registered, and called, exactly when the schema has a root type for K:  *)
(* both or neither, and a root type without fields keeps them.             *)
RootToolsRegistered(rootName, pair) ==
    /\ IsDefined(rootName) => pair \subseteq tools
    /\ ~IsDefined(rootName) => pair \cap tools = {}

C2_RootToolsIffRootType ==
    /\ \A pair \in {QueryTools, MutationTools, SubscriptionTools} :
          pair \subseteq tools \/ pair \cap tools = {}
    /\ pc \in {"connect", "idle", "handled"} =>
          /\ RootToolsRegistered(TheSchema.queryType, QueryTools)
          /\ RootToolsRegistered(TheSchema.mutationType, MutationTools)
          /\ RootToolsRegistered(TheSchema.subscriptionType, SubscriptionTools)
    /\ pc = "handled" =>
          /\ request.tool \in QueryTools => IsDefined(TheSchema.queryType)
          /\ request.tool \in MutationTools => IsDefined(TheSchema.mutationType)
          /\ request.tool \in SubscriptionTools => IsDefined(TheSchema.subscriptionType)

\* a served schema whose Mutation type has no fields and which has no
\* Subscription type: the mutation tools are there, the subscription tools
\* are not, and list-mutation-fields has been called
C2_Witness ==
    /\ HandledTool("list-mutation-fields")
    /\ \E i \in TypesNamed(<<"M","u","t","a","t","i","o","n">>) : Len(TypeAt(i).fields) = 0
    /\ MutationTools \subseteq tools
    /\ ~IsDefined(TheSchema.subscriptionType)
    /\ SubscriptionTools \cap tools = {}

-----------------------------------------------------------------------------
(* C4: when the schema file cannot be read or does not parse, the process  *)
(* writes a diagnostic to the error stream (with the resolved absolute     *)
(* path when the file cannot be read) and exits with status 1, no tool     *)
(* registered and the transport not connected; requests are served only    *)
(* with the schema loaded.                                                 *)
AbsolutePathOfArgs ==
    IF args = <<>> THEN <<"/","s","r","v","/","s","c","h","e","m","a",".","g","r","a","p","h","q","l","s">>
    ELSE IF args[1] = <<"a","p","i",".","g","r","a","p","h","q","l","s">> THEN <<"/","s","r","v","/","a","p","i",".","g","r","a","p","h","q","l","s">>
    ELSE args[1]

C4_LoadFailureIsFatal ==
    /\ file.state # "valid" =>
          /\ pc \in {"start", "exited"}
          /\ tools = {} /\ ~connected /\ ~IsDefined(schema)
    /\ (pc = "exited" /\ ~HelpRequested) =>
          /\ file.state # "valid"
          /\ exitCode = Some(1)
          /\ Len(stderr) >= 1
          /\ file.state = "unreadable" =>
                \E i \in 1..Len(stderr) : Contains(stderr[i], AbsolutePathOfArgs)
          /\ file.state = "invalid" =>
                \E i \in 1..Len(stderr) : Contains(stderr[i], ParseErrorMessage)
    /\ (Running \/ connected \/ tools # {}) =>
          /\ file.state = "valid"
          /\ schema = file.doc
          /\ exitCode = Undefined

\* the run given the relative path of a file that cannot be read has exited
\* with status 1
C4_Witness ==
    /\ pc = "exited"
    /\ file.state = "unreadable"
    /\ args = << <<"a","p","i",".","g","r","a","p","h","q","l","s">> >>
    /\ exitCode = Some(1)
    /\ tools = {}

-----------------------------------------------------------------------------
(* C6: list-types returns, joined by ", ", the names of exactly the types  *)
(* of the type map that do not start with "__".                            *)
C6_ListTypesHidesReservedOnly ==
    HandledTool("list-types") =>
        /\ Returned
        /\ LET listed == Items(ResultText, <<","," ">>)
               wanted == { name \in Range(Keys(TheSchema.typeMap)) : ~Reserved(name) }
           IN /\ \A i \in 1..Len(listed) : ~Reserved(listed[i])
              /\ Range(listed) = wanted
              /\ Len(listed) = Cardinality(wanted)

\* list-types has answered for a type map that holds __Schema and _Any, and
\* names _Any
C6_Witness ==
    /\ HandledTool("list-types")
    /\ TypesNamed(<<"_","_","S","c","h","e","m","a">>) # {}
    /\ <<"_","A","n","y">> \in Range(Items(ResultText, <<","," ">>))

-----------------------------------------------------------------------------
(* C5: for every schema and every pattern search-schema returns exactly    *)
(* two lines: "Matching types: " with every type name that does not start  *)
(* with "__" and matches the pattern without regard to case, and           *)
(* "Matching fields: " with TypeName.fieldName for every matching field    *)
(* of the field-bearing types not starting with "__"; "None" stands for an *)
(* empty list, so ".*" lists everything and a pattern that matches nothing *)
(* gives "None" twice.  The code does not do this for every pattern: one   *)
(* that is not a regular expression makes the handler throw (C1).          *)
WantedTypes(pattern) ==
    { name \in Range(Keys(TheSchema.typeMap)) :
          ~Reserved(name) /\ RegExpTest(pattern, name) }

WantedFields(pattern) ==
    UNION { { TypeAt(i).name \o <<".">> \o TypeAt(i).fields[k].name :
                k \in { h \in 1..Len(TypeAt(i).fields) :
                          RegExpTest(pattern, TypeAt(i).fields[h].name) } } :
            i \in { h \in 1..Len(TheSchema.typeMap) :
                      ~Reserved(TypeAt(h).name) /\ FieldBearing(TypeAt(h)) } }

\* a line of the answer: the label, then the wanted names or "None"
LineLists(line, label, wanted) ==
    /\ StartsWith(line, label)
    /\ LET rest == SubSeq(line, Len(label) + 1, Len(line))
       IN IF wanted = {} THEN rest = <<"N","o","n","e">>
          ELSE /\ Range(Items(rest, <<","," ">>)) = wanted
               /\ Len(Items(rest, <<","," ">>)) = Cardinality(wanted)

SearchAnswers(pattern) ==
    /\ Returned
    /\ LET lines == Split(ResultText, <<"\n">>)
       IN /\ Len(lines) = 2
          /\ LineLists(lines[1], <<"M","a","t","c","h","i","n","g"," ","t","y","p","e","s",":"," ">>, WantedTypes(pattern))
          /\ LineLists(lines[2], <<"M","a","t","c","h","i","n","g"," ","f","i","e","l","d","s",":"," ">>, WantedFields(pattern))
          /\ pattern = <<".","*">> =>
                Range(Items(SubSeq(lines[1], 17, Len(lines[1])), <<","," ">>))
                   = { name \in Range(Keys(TheSchema.typeMap)) : ~Reserved(name) }
          /\ pattern = <<"z","z","z">> =>
                /\ lines[1] = <<"M","a","t","c","h","i","n","g"," ","t","y","p","e","s",":"," ","N","o","n","e">>
                /\ lines[2] = <<"M","a","t","c","h","i","n","g"," ","f","i","e","l","d","s",":"," ","N","o","n","e">>

C5_SearchAnswersEveryPattern ==
    HandledTool("search-schema") => SearchAnswers(ValueOf(request.arg))

\* what does hold: the answer is as described for every pattern that is a
\* regular expression
SearchAnswersValidPatterns ==
    (HandledTool("search-schema") /\ PatternIsValid(ValueOf(request.arg)))
        => SearchAnswers(ValueOf(request.arg))

-----------------------------------------------------------------------------
(* C7: get-type returns "Type "<typeName>" not found" when the type map    *)
(* has no such type, the printed definition when the type has a syntax     *)
(* node, and otherwise the three lines Type, Description (the description  *)
(* or "No description") and Kind; it never throws.                         *)
C7_GetTypeThreeResults ==
    HandledTool("get-type") =>
        LET typeName == ValueOf(request.arg)
            found == TypesNamed(typeName)
        IN /\ Returned
           /\ found = {} =>
                 ResultText = <<"T","y","p","e"," ","\"">> \o typeName \o <<"\""," ","n","o","t"," ","f","o","u","n","d">>
           /\ \A i \in found :
                 IF IsDefined(TypeAt(i).astNode)
                 THEN ResultText = print(ValueOf(TypeAt(i).astNode))
                 ELSE Split(ResultText, <<"\n">>) =
                        << <<"T","y","p","e",":"," ">> \o typeName,
                           <<"D","e","s","c","r","i","p","t","i","o","n",":"," ">>
                              \o (IF IsDefined(TypeAt(i).description)
                                  THEN ValueOf(TypeAt(i).description)
                                  ELSE <<"N","o"," ","d","e","s","c","r","i","p","t","i","o","n">>),
                           <<"K","i","n","d",":"," ">> \o TypeAt(i).ctor >>

\* get-type has answered for the standard scalar ID with the summary
C7_Witness ==
    /\ HandledTool("get-type")
    /\ request.arg = Some(<<"I","D">>)
    /\ StartsWith(ResultText, <<"T","y","p","e",":"," ","I","D","\n","D","e","s","c","r","i","p","t","i","o","n",":"," ","T","h","e"," ","I","D"," ","s","c","a","l","a","r">>)
    /\ Contains(ResultText, <<"\n","K","i","n","d",":"," ","G","r","a","p","h","Q","L","S","c","a","l","a","r","T","y","p","e">>)

\* get-type has answered for the document's type User with its definition
GetTypePrintsDefinition ==
    /\ HandledTool("get-type")
    /\ request.arg = Some(<<"U","s","e","r">>)
    /\ ResultText = <<"t","y","p","e"," ","U","s","e","r"," ","{","\n"," "," ","i","d",":"," ","I","D","!","\n"," "," ","n","a","m","e",":"," ","S","t","r","i","n","g","\n"," "," ","r","o","l","e",":"," ","R","o","l","e","\n","}">>

\* get-type has answered for a name the schema does not have
GetTypeReportsAbsent ==
    /\ HandledTool("get-type")
    /\ request.arg = Some(<<"m","i","s","s","i","n","g">>)
    /\ ResultText = <<"T","y","p","e"," ","\"","m","i","s","s","i","n","g","\""," ","n","o","t"," ","f","o","u","n","d">>

-----------------------------------------------------------------------------
(* C8: get-type-fields returns the not-found message with the name when    *)
(* the type is absent, the "is not an object type with fields" message     *)
(* when the type has no fields method, and otherwise one line              *)
(* "fieldName: signature" per declared field, in declaration order.        *)
C8_GetTypeFieldsLinePerField ==
    HandledTool("get-type-fields") =>
        LET typeName == ValueOf(request.arg)
            found == TypesNamed(typeName)
            lines == Items(ResultText, <<"\n">>)
        IN /\ Returned
           /\ found = {} =>
                 /\ ResultText = <<"T","y","p","e"," ","\"">> \o typeName \o <<"\""," ","n","o","t"," ","f","o","u","n","d">>
                 /\ Contains(ResultText, typeName)
           /\ \A i \in found :
                 IF ~FieldBearing(TypeAt(i))
                 THEN ResultText = <<"T","y","p","e"," ","\"">> \o typeName
                                     \o <<"\""," ","i","s"," ","n","o","t"," ","a","n"," ","o","b","j","e","c","t"," ","t","y","p","e"," ","w","i","t","h"," ","f","i","e","l","d","s">>
                 ELSE /\ Len(lines) = Len(TypeAt(i).fields)
                      /\ \A k \in 1..Len(lines) :
                            lines[k] = TypeAt(i).fields[k].name \o <<":"," ">>
                                         \o TypeToString(TypeAt(i).fields[k].type)

\* get-type-fields has answered for User with its three fields in order
C8_Witness ==
    /\ HandledTool("get-type-fields")
    /\ request.arg = Some(<<"U","s","e","r">>)
    /\ ResultText = <<"i","d",":"," ","I","D","!","\n","n","a","m","e",":"," ","S","t","r","i","n","g","\n","r","o","l","e",":"," ","R","o","l","e">>

-----------------------------------------------------------------------------
(* C9: get-K-field looks fieldName up, by its exact name, among the fields *)
(* of K's root type alone: it returns the printed definition of a field    *)
(* found there with a syntax node, and otherwise the text "Field not found *)
(* or has no definition", as an ordinary result; a field of another type   *)
(* is not found.                                                           *)
RootNameOfTool(tool) ==
    IF tool = "get-query-field" THEN TheSchema.queryType
    ELSE IF tool = "get-mutation-field" THEN TheSchema.mutationType
    ELSE TheSchema.subscriptionType

C9_GetRootFieldOnRootOnly ==
    (pc = "handled" /\ request.tool \in {"get-query-field", "get-mutation-field",
                                         "get-subscription-field"}) =>
        LET fieldName == ValueOf(request.arg)
            rootName == RootNameOfTool(request.tool)
            root == TypeAt(CHOOSE i \in TypesNamed(ValueOf(rootName)) : TRUE)
            hits == { k \in 1..Len(root.fields) :
                        /\ root.fields[k].name = fieldName
                        /\ IsDefined(root.fields[k].astNode) }
        IN /\ Returned
           /\ IsDefined(rootName)
           /\ hits = {} => ResultText = <<"F","i","e","l","d"," ","n","o","t"," ","f","o","u","n","d"," ","o","r"," ","h","a","s"," ","n","o"," ","d","e","f","i","n","i","t","i","o","n">>
           /\ \A k \in hits :
                 ResultText = print(ValueOf(root.fields[k].astNode))

\* get-mutation-field has answered "not found" for user, a field of Query,
\* in a schema that has both root types
C9_Witness ==
    /\ HandledTool("get-mutation-field")
    /\ request.arg = Some(<<"u","s","e","r">>)
    /\ TheSchema.queryType = Some(<<"Q","u","e","r","y">>)
    /\ \E i \in TypesNamed(<<"M","u","t","a","t","i","o","n">>) : Len(TypeAt(i).fields) > 0
    /\ ResultText = <<"F","i","e","l","d"," ","n","o","t"," ","f","o","u","n","d"," ","o","r"," ","h","a","s"," ","n","o"," ","d","e","f","i","n","i","t","i","o","n">>

\* get-query-field has answered for user with its definition
GetQueryFieldPrintsDefinition ==
    /\ HandledTool("get-query-field")
    /\ request.arg = Some(<<"u","s","e","r">>)
    /\ ResultText = <<"u","s","e","r","(","i","d",":"," ","I","D","!",")",":"," ","U","s","e","r">>

\* get-query-field has answered "not found" for name, a field that the root
\* type __Type has without a syntax node
GetQueryFieldWithoutSyntaxNode ==
    /\ HandledTool("get-query-field")
    /\ request.arg = Some(<<"n","a","m","e">>)
    /\ TheSchema.queryType = Some(<<"_","_","T","y","p","e">>)
    /\ ResultText = <<"F","i","e","l","d"," ","n","o","t"," ","f","o","u","n","d"," ","o","r"," ","h","a","s"," ","n","o"," ","d","e","f","i","n","i","t","i","o","n">>

=============================================================================
